---------------------------- MODULE Spec2Model ----------------------------
(***************************************************************************)
(* Model of @mastrojs/images (src/images.ts): the image route created by   *)
(* createImagesRoute (GET and getStaticPaths), transformImage and the lazy *)
(* initialization of the ImageMagick WASM runtime.                         *)
(*                                                                         *)
(* JavaScript strings are modelled as sequences of one-character strings,  *)
(* with 0-based indices as in the source, so that slug parsing, message    *)
(* formatting and path generation are computed as the code computes them.  *)
(***************************************************************************)
EXTENDS Integers, Sequences, FiniteSets, TLC

(***************************************************************************)
(* String literals of the source, and the strings used as inputs.          *)
(***************************************************************************)
\* "404 not found"
sNotFound ==
    <<"4", "0", "4", " ", "n", "o", "t", " ", "f", "o", "u", "n", "d">>
\* "404 Image preset \""
sPresetNotFoundA ==
    <<"4", "0", "4", " ", "I", "m", "a", "g", "e", " ", "p", "r", "e", "s", "e", "t", " ", "\"">>
\* "\" not found.\n\nMust be one of: \""
sPresetNotFoundB ==
    <<"\"", " ", "n", "o", "t", " ", "f", "o", "u", "n", "d", ".", "\n", "\n", "M", "u", "s", "t", " ", "b", "e", " ", "o", "n", "e", " ", "o", "f", ":", " ", "\"">>
\* "\"."
sPresetNotFoundC ==
    <<"\"", ".">>
\* "\", \""
sNamesSep ==
    <<"\"", ",", " ", "\"">>
\* "404 Format for preset "
sFormatA ==
    <<"4", "0", "4", " ", "F", "o", "r", "m", "a", "t", " ", "f", "o", "r", " ", "p", "r", "e", "s", "e", "t", " ">>
\* " must be "
sFormatB ==
    <<" ", "m", "u", "s", "t", " ", "b", "e", " ">>
\* " instead of "
sFormatC ==
    <<" ", "i", "n", "s", "t", "e", "a", "d", " ", "o", "f", " ">>
\* "/_images/"
sImagesPrefix ==
    <<"/", "_", "i", "m", "a", "g", "e", "s", "/">>
\* ".webp"
sDotWebp ==
    <<".", "w", "e", "b", "p">>
\* "\""
sQuote ==
    <<"\"">>
\* "WEBP"
WebP ==
    <<"W", "E", "B", "P">>
\* "PNG"
Png ==
    <<"P", "N", "G">>
\* "RGBA"
Rgba ==
    <<"R", "G", "B", "A">>
\* "images/"
defaultBaseDir ==
    <<"i", "m", "a", "g", "e", "s", "/">>
\* "img/"
otherBaseDir ==
    <<"i", "m", "g", "/">>
\* "small"
nSmall ==
    <<"s", "m", "a", "l", "l">>
\* "large"
nLarge ==
    <<"l", "a", "r", "g", "e">>
\* "a/b"
nNested ==
    <<"a", "/", "b">>
\* "constructor"
nConstructor ==
    <<"c", "o", "n", "s", "t", "r", "u", "c", "t", "o", "r">>
\* "blue-marble.jpg"
fBlueMarble ==
    <<"b", "l", "u", "e", "-", "m", "a", "r", "b", "l", "e", ".", "j", "p", "g">>
\* "sub/x.png"
fSubX ==
    <<"s", "u", "b", "/", "x", ".", "p", "n", "g">>
\* "gone.gif"
fMissing ==
    <<"g", "o", "n", "e", ".", "g", "i", "f">>
\* "/_images/small/blue-marble.jpg.webp"
sReadmeStaticPath ==
    <<"/", "_", "i", "m", "a", "g", "e", "s", "/", "s", "m", "a", "l", "l", "/", "b", "l", "u", "e", "-", "m", "a", "r", "b", "l", "e", ".", "j", "p", "g", ".", "w", "e", "b", "p">>
\* "webp"
xWebpLower ==
    <<"w", "e", "b", "p">>
\* "WebP"
xWebpMixed ==
    <<"W", "e", "b", "P">>
\* "png"
xPngLower ==
    <<"p", "n", "g">>
\* "rgba"
xRgbaLower ==
    <<"r", "g", "b", "a">>
\* "abcdefghijklmnopqrstuvwxyz"
Lower ==
    <<"a", "b", "c", "d", "e", "f", "g", "h", "i", "j", "k", "l", "m", "n", "o", "p", "q", "r", "s", "t", "u", "v", "w", "x", "y", "z">>
\* "ABCDEFGHIJKLMNOPQRSTUVWXYZ"
Upper ==
    <<"A", "B", "C", "D", "E", "F", "G", "H", "I", "J", "K", "L", "M", "N", "O", "P", "Q", "R", "S", "T", "U", "V", "W", "X", "Y", "Z">>

(***************************************************************************)
(* String primitives of JavaScript used by the source.                     *)
(***************************************************************************)
Min(a, b) ==
    IF a <= b THEN a ELSE b

Max(a, b) ==
    IF a >= b THEN a ELSE b

Clamp(i, len) ==
    Max(0, Min(i, len))

\* String.prototype.indexOf for a one-character needle: 0-based, -1 if absent.
indexOf(str, ch) ==
    IF \E i \in 1..Len(str) : str[i] = ch
    THEN (CHOOSE i \in 1..Len(str) :
              str[i] = ch /\ \A j \in 1..(i - 1) : str[j] # ch) - 1
    ELSE -1

\* String.prototype.lastIndexOf for a one-character needle.
lastIndexOf(str, ch) ==
    IF \E i \in 1..Len(str) : str[i] = ch
    THEN (CHOOSE i \in 1..Len(str) :
              str[i] = ch /\ \A j \in (i + 1)..Len(str) : str[j] # ch) - 1
    ELSE -1

\* String.prototype.substring(start, end): arguments are clamped to
\* [0, length] and swapped when start > end.
substring(str, start, end) ==
    LET s == Clamp(start, Len(str))
        e == Clamp(end, Len(str))
    IN  SubSeq(str, Min(s, e) + 1, Max(s, e))

\* String.prototype.substring(start) and String.prototype.slice(start) for
\* a non-negative start.
substringFrom(str, start) ==
    substring(str, start, Len(str))

upperChar(c) ==
    IF \E i \in 1..Len(Lower) : Lower[i] = c
    THEN Upper[CHOOSE i \in 1..Len(Lower) : Lower[i] = c]
    ELSE c

\* String.prototype.toUpperCase on the ASCII alphabet.
toUpperCase(str) ==
    [i \in 1..Len(str) |-> upperChar(str[i])]

RECURSIVE join(_, _)
\* Array.prototype.join
join(strs, sep) ==
    IF Len(strs) = 0 THEN <<>>
    ELSE IF Len(strs) = 1 THEN strs[1]
    ELSE strs[1] \o sep \o join(Tail(strs), sep)

RECURSIVE flatten(_)
\* Array.prototype.flatMap's concatenation of the mapped arrays.
flatten(seqs) ==
    IF Len(seqs) = 0 THEN <<>> ELSE seqs[1] \o flatten(Tail(seqs))

Range(s) ==
    {s[i] : i \in DOMAIN s}

\* const splitAt = (str, index) => [str.substring(0, index), str.substring(index + 1)]
splitAt(str, index) ==
    <<substring(str, 0, index), substringFrom(str, index + 1)>>

(***************************************************************************)
(* Configurations and inputs.                                              *)
(***************************************************************************)
\* Presets are listed in Object.keys order. An absent format (format?:) is
\* the empty string, which `preset.format || MagickFormat.WebP` treats like
\* undefined. transform names the caller's transform function.
\* files: the files below baseDir, relative to it, in the order findFiles
\* discovers them.
ReadmeConfig ==
    [presets |-> << [name |-> nSmall, format |-> <<>>, transform |-> "resize300"] >>,
     baseDir |-> defaultBaseDir,
     files |-> <<fBlueMarble>>]

Configs ==
    { ReadmeConfig,
      [presets |-> <<>>,
       baseDir |-> defaultBaseDir,
       files |-> <<fBlueMarble>>],
      [presets |-> << [name |-> nSmall, format |-> WebP, transform |-> "resize300"],
                      [name |-> nLarge, format |-> Png, transform |-> "resize1200"] >>,
       baseDir |-> defaultBaseDir,
       files |-> <<fSubX, fBlueMarble>>],
      [presets |-> << [name |-> nLarge, format |-> Rgba, transform |-> "resize1200"],
                      [name |-> nSmall, format |-> <<>>, transform |-> "resize300"] >>,
       baseDir |-> otherBaseDir,
       files |-> <<fSubX, fBlueMarble>>],
      [presets |-> << [name |-> nNested, format |-> <<>>, transform |-> "crop"],
                      [name |-> nSmall, format |-> Png, transform |-> "resize300"] >>,
       baseDir |-> defaultBaseDir,
       files |-> <<fBlueMarble>>],
      [presets |-> << [name |-> nSmall, format |-> <<>>, transform |-> "resize300"] >>,
       baseDir |-> otherBaseDir,
       files |-> <<>>] }

\* Property names every object literal inherits from Object.prototype.
ObjectPrototypeKeys ==
    {nConstructor}

SlugPresetParts ==
    {<<>>, nSmall, nLarge, nNested, nConstructor}

SlugPathParts ==
    {<<>>, fBlueMarble, fSubX}

SlugSuffixParts ==
    {<<>>, xWebpLower, xWebpMixed, xPngLower, xRgbaLower}

\* The request slugs: every combination of the parts, with and without the
\* two separators.
Slugs ==
    { pre \o s1 \o path \o s2 \o suf :
        pre \in SlugPresetParts, s1 \in {<<>>, <<"/">>},
        path \in SlugPathParts, s2 \in {<<>>, <<".">>},
        suf \in SlugSuffixParts }

\* Values staticCacheControlVal(req) returns: empty on localhost.
CacheHeaders ==
    {"", "max-age=604800"}

MaxCalls ==
    2

Calls ==
    1..MaxCalls

VARIABLES
    presets,      \* createImagesRoute's presets argument
    baseDir,      \* createImagesRoute's baseDir argument
    files,        \* the files below baseDir
    nodeEnv,      \* typeof document === "undefined" && typeof Deno === "undefined"
    wasmCached,   \* caches "magick_native" holds wasmUrl
    inialized,    \* let inialized = false
    proc,         \* each request or transformImage call: position and locals
    staticPaths,  \* what getStaticPaths last returned
    pathsListed,  \* getStaticPaths has returned
    initCalls,    \* history: invocations of initialize()
    initDone      \* history: initializeImageMagick calls that completed

vars ==
    <<presets, baseDir, files, nodeEnv, wasmCached, inialized, proc,
      staticPaths, pathsListed, initCalls, initDone>>

config ==
    <<presets, baseDir, files, nodeEnv>>

NoBytes ==
    [src |-> <<>>, transform |-> "", format |-> <<>>]

NoResponse ==
    [status |-> 0, text |-> <<>>, bytes |-> NoBytes, contentType |-> "",
     cacheControl |-> ""]

IdleProc ==
    [pc |-> "idle", viaGET |-> FALSE, hasSlug |-> FALSE, slug |-> <<>>,
     path |-> <<>>, transform |-> "", format |-> <<>>,
     flagAtStart |-> FALSE, sawResolved |-> {}, sawRejected |-> {},
     sawInit |-> {}, transformCalls |-> 0, inits |-> 0,
     pnpm |-> "untried", npm |-> "untried", didRead |-> FALSE,
     decoded |-> FALSE, result |-> NoBytes, resp |-> NoResponse]

(***************************************************************************)
(* createImagesRoute: GET                                                  *)
(***************************************************************************)
\* Object.keys(presets)
ObjectKeys ==
    [i \in 1..Len(presets) |-> presets[i].name]

NoPreset ==
    [truthy |-> FALSE, format |-> <<>>, transform |-> "undefined"]

presetsGetOwn(presetName) ==
    IF \E i \in 1..Len(presets) : presets[i].name = presetName
    THEN LET i == CHOOSE i \in 1..Len(presets) : presets[i].name = presetName
         IN  [truthy |-> TRUE, format |-> presets[i].format,
              transform |-> presets[i].transform]
    ELSE NoPreset

\* presets[presetName]: a property read, which falls back to the prototype
\* chain; an inherited member is truthy and has neither format nor transform.
presetsGet(presetName) ==
    IF \E i \in 1..Len(presets) : presets[i].name = presetName
    THEN presetsGetOwn(presetName)
    ELSE IF presetName \in ObjectPrototypeKeys
    THEN [truthy |-> TRUE, format |-> <<>>, transform |-> "undefined"]
    ELSE NoPreset

resolveFormatVerbatim(preset) ==
    preset.format

\* const format = preset.format || MagickFormat.WebP
resolveFormat(preset) ==
    IF preset.format # <<>> THEN preset.format ELSE WebP

formatDiffersExact(format, suffix) ==
    format # suffix

\* format !== suffix.toUpperCase()
formatDiffers(format, suffix) ==
    format # toUpperCase(suffix)

\* `404 Image preset "${presetName}" not found.\n\nMust be one of: "${names}".`
presetNotFoundBody(presetName) ==
    sPresetNotFoundA \o presetName \o sPresetNotFoundB
        \o join(ObjectKeys, sNamesSep) \o sPresetNotFoundC

\* `404 Format for preset ${presetName} must be ${format} instead of ${suffix.toUpperCase()}`
formatBody(presetName, format, suffix) ==
    sFormatA \o presetName \o sFormatB \o format \o sFormatC
        \o toUpperCase(suffix)

\* contentType(format) of @std/media-types: the media type registered for
\* the extension, "" (undefined) when there is none.
contentType(format) ==
    IF format = WebP THEN "image/webp"
    ELSE IF format = Png THEN "image/png"
    ELSE ""

\* contentType(format) || "image/?"
contentTypeHeader(format) ==
    IF contentType(format) # "" THEN contentType(format) ELSE "image/?"

partsMissingNoFilePath(presetName, filePath, suffix) ==
    presetName = <<>> \/ suffix = <<>>

\* !presetName || !filePath || !suffix
partsMissing(presetName, filePath, suffix) ==
    presetName = <<>> \/ filePath = <<>> \/ suffix = <<>>

NotFound(text) ==
    [kind |-> "404", text |-> text, path |-> <<>>, transform |-> "",
     format |-> <<>>]

transformArgsBarePath(filePath, preset, format) ==
    [path |-> filePath, transform |-> preset.transform, format |-> format]

\* transformImage(baseDir + filePath, { ...preset, format })
transformArgs(filePath, preset, format) ==
    [path |-> baseDir \o filePath, transform |-> preset.transform,
     format |-> format]

\* The synchronous part of GET: the 404 it answers with, or the
\* transformImage call it makes.
GETRoute(hasSlug, slug) ==
    IF ~hasSlug \/ slug = <<>>
    THEN NotFound(sNotFound)
    ELSE
      LET a == splitAt(slug, indexOf(slug, "/"))
          presetName == a[1]
          path == a[2]
          b == splitAt(path, lastIndexOf(path, "."))
          filePath == b[1]
          suffix == b[2]
          preset == presetsGet(presetName)
          format == resolveFormat(preset)
          args == transformArgs(filePath, preset, format)
      IN  IF partsMissing(presetName, filePath, suffix)
          THEN NotFound(sNotFound)
          ELSE IF ~preset.truthy
          THEN NotFound(presetNotFoundBody(presetName))
          ELSE IF formatDiffers(format, suffix)
          THEN NotFound(formatBody(presetName, format, suffix))
          ELSE [kind |-> "call", text |-> <<>>, path |-> args.path,
                transform |-> args.transform, format |-> args.format]

(***************************************************************************)
(* createImagesRoute: getStaticPaths                                       *)
(***************************************************************************)
\* findFiles(baseDir + "**/*") of @mastrojs/mastro: the files below baseDir
\* as paths from the project root with a leading "/", in discovery order.
findFiles ==
    [i \in 1..Len(files) |-> <<"/">> \o baseDir \o files[i]]

staticPathWholeImg(preset, img) ==
    sImagesPrefix \o preset \o <<"/">> \o img \o sDotWebp

\* `/_images/${preset}/${img.slice(baseDir.length + 1)}.webp`
staticPath(preset, img) ==
    sImagesPrefix \o preset \o <<"/">>
        \o substringFrom(img, Len(baseDir) + 1) \o sDotWebp

\* images.flatMap((img) => Object.keys(presets).map((preset) => ...))
getStaticPathsResult ==
    LET images == findFiles
    IN  flatten([i \in 1..Len(images) |->
                    [j \in 1..Len(ObjectKeys) |->
                        staticPath(ObjectKeys[j], images[i])]])

GetStaticPaths ==
    /\ ~pathsListed
    /\ staticPaths' = getStaticPathsResult
    /\ pathsListed' = TRUE
    /\ UNCHANGED <<config, wasmCached, inialized, proc, initCalls, initDone>>

(***************************************************************************)
(* transformImage and initialize                                           *)
(***************************************************************************)
needsInitAlways ==
    TRUE

needsInitNever ==
    FALSE

\* if (!inialized)
needsInit ==
    ~inialized

\* initialize() up to its first await: the environment test.
initializeEntry ==
    IF nodeEnv THEN "init_pnpm" ELSE "init_cache"

\* readFile(path) of @mastrojs/mastro resolves for the files below baseDir.
fileExists(path) ==
    \E i \in 1..Len(files) : baseDir \o files[i] = path

Resolved(c) ==
    proc[c].pc = "resolved" \/ (proc[c].pc = "responded" /\ proc[c].decoded)

Initializing(c) ==
    proc[c].pc \in {"init_pnpm", "init_npm", "init_cache", "init_fetch",
                    "init_wasm"}

\* transformImage(path, preset) up to its first await.
transformImageEntry(p, args) ==
    [p EXCEPT !.pc = IF needsInit THEN initializeEntry ELSE "readFile",
              !.path = args.path,
              !.transform = args.transform,
              !.format = args.format,
              !.flagAtStart = inialized,
              !.sawResolved = {c \in DOMAIN proc : Resolved(c)},
              !.sawRejected = {c \in DOMAIN proc : proc[c].pc = "rejected"},
              !.sawInit = {c \in DOMAIN proc : Initializing(c)},
              !.transformCalls = @ + 1,
              !.inits = IF needsInit THEN @ + 1 ELSE @,
              !.didRead = ~needsInit]

\* GET, from the request to the 404 response or to transformImage's first
\* await.
GET(r, hasSlug, slug) ==
    /\ proc[r].pc = "idle"
    /\ LET route == GETRoute(hasSlug, slug)
           p == [proc[r] EXCEPT !.viaGET = TRUE, !.hasSlug = hasSlug,
                                !.slug = slug]
       IN  IF route.kind = "404"
           THEN /\ proc' = [proc EXCEPT ![r] =
                       [p EXCEPT !.pc = "responded",
                                 !.resp = [NoResponse EXCEPT
                                              !.status = 404,
                                              !.text = route.text]]]
                /\ UNCHANGED initCalls
           ELSE /\ proc' = [proc EXCEPT ![r] = transformImageEntry(p, route)]
                /\ initCalls' = IF needsInit THEN initCalls + 1 ELSE initCalls
    /\ UNCHANGED <<config, wasmCached, inialized, staticPaths, pathsListed,
                   initDone>>

\* A direct call of the exported transformImage, as the test makes it.
TransformImageCall(r, path, preset) ==
    /\ proc[r].pc = "idle"
    /\ proc' = [proc EXCEPT ![r] = transformImageEntry(proc[r],
                   [path |-> path, transform |-> preset.transform,
                    format |-> preset.format])]
    /\ initCalls' = IF needsInit THEN initCalls + 1 ELSE initCalls
    /\ UNCHANGED <<config, wasmCached, inialized, staticPaths, pathsListed,
                   initDone>>

\* catch { await nodeJsInit(<npm path>) }
pnpmFailure ==
    "init_npm"

\* Node: await nodeJsInit(<pnpm path>), that is readFile and then
\* initializeImageMagick; either may throw.
InitPnpm(r) ==
    /\ proc[r].pc = "init_pnpm"
    /\ \E ok \in BOOLEAN :
         /\ proc' = [proc EXCEPT ![r].pnpm = IF ok THEN "ok" ELSE "failed",
                                 ![r].pc = IF ok THEN "init_done"
                                           ELSE pnpmFailure]
         /\ initDone' = IF ok THEN initDone + 1 ELSE initDone
    /\ UNCHANGED <<config, wasmCached, inialized, staticPaths, pathsListed,
                   initCalls>>

npmFailureSwallowed ==
    "init_done"

\* The second nodeJsInit is awaited outside any try: its failure rejects
\* initialize() and with it transformImage.
npmFailure ==
    "rejected"

InitNpm(r) ==
    /\ proc[r].pc = "init_npm"
    /\ \E ok \in BOOLEAN :
         /\ proc' = [proc EXCEPT ![r].npm = IF ok THEN "ok" ELSE "failed",
                                 ![r].pc = IF ok THEN "init_done"
                                           ELSE npmFailure]
         /\ initDone' = IF ok THEN initDone + 1 ELSE initDone
    /\ UNCHANGED <<config, wasmCached, inialized, staticPaths, pathsListed,
                   initCalls>>

\* Deno, browser: caches.open("magick_native") and cache.match(wasmUrl).
InitCacheMatch(r) ==
    /\ proc[r].pc = "init_cache"
    /\ proc' = [proc EXCEPT ![r].pc = IF wasmCached THEN "init_wasm"
                                      ELSE "init_fetch"]
    /\ UNCHANGED <<config, wasmCached, inialized, staticPaths, pathsListed,
                   initCalls, initDone>>

\* fetch(wasmUrl) and cache.put(wasmUrl, response.clone()); a failed fetch
\* rejects initialize().
InitFetch(r) ==
    /\ proc[r].pc = "init_fetch"
    /\ \E ok \in BOOLEAN :
         /\ proc' = [proc EXCEPT ![r].pc = IF ok THEN "init_wasm"
                                           ELSE "rejected"]
         /\ wasmCached' = (wasmCached \/ ok)
    /\ UNCHANGED <<config, inialized, staticPaths, pathsListed, initCalls,
                   initDone>>

\* await initializeImageMagick(new Int8Array(...)) from cached or fetched bytes.
InitWasm(r) ==
    /\ proc[r].pc = "init_wasm"
    /\ \E ok \in BOOLEAN :
         /\ proc' = [proc EXCEPT ![r].pc = IF ok THEN "init_done"
                                           ELSE "rejected"]
         /\ initDone' = IF ok THEN initDone + 1 ELSE initDone
    /\ UNCHANGED <<config, wasmCached, inialized, staticPaths, pathsListed,
                   initCalls>>

\* inialized = true
flagAfterInit ==
    TRUE

\* transformImage resumed after `await initialize()`: sets the flag and
\* calls readFile(path).
SetInialized(r) ==
    /\ proc[r].pc = "init_done"
    /\ inialized' = flagAfterInit
    /\ proc' = [proc EXCEPT ![r].pc = "readFile", ![r].didRead = TRUE]
    /\ UNCHANGED <<config, wasmCached, staticPaths, pathsListed, initCalls,
                   initDone>>

\* await readFile(path): a missing file rejects transformImage.
ReadFile(r) ==
    /\ proc[r].pc = "readFile"
    /\ proc' = [proc EXCEPT ![r].pc = IF fileExists(proc[r].path)
                                      THEN "decode" ELSE "rejected"]
    /\ UNCHANGED <<config, wasmCached, inialized, staticPaths, pathsListed,
                   initCalls, initDone>>

\* ImageMagick.read(data, image => { preset.transform(image);
\* image.write(preset.format, resolve) }): the bytes are the file's image
\* after the transform, encoded in the format.
encoded(p) ==
    [src |-> p.path, transform |-> p.transform, format |-> p.format]

Decode(r) ==
    /\ proc[r].pc = "decode"
    /\ proc' = [proc EXCEPT ![r].pc = "resolved", ![r].decoded = TRUE,
                            ![r].result = encoded(proc[r])]
    /\ UNCHANGED <<config, wasmCached, inialized, staticPaths, pathsListed,
                   initCalls, initDone>>

response200(p, cacheHeader) ==
    [status |-> 200, text |-> <<>>, bytes |-> p.result,
     contentType |-> contentTypeHeader(p.format),
     cacheControl |-> cacheHeader]

\* GET resumed after `await transformImage(...)`: new Response(img) with
\* its Content-Type and, when staticCacheControlVal(req) is not empty, its
\* Cache-Control ("" stands for no header).
Respond(r) ==
    /\ proc[r].pc = "resolved"
    /\ proc[r].viaGET
    /\ \E cacheHeader \in CacheHeaders :
         proc' = [proc EXCEPT ![r].pc = "responded",
                              ![r].resp = response200(proc[r], cacheHeader)]
    /\ UNCHANGED <<config, wasmCached, inialized, staticPaths, pathsListed,
                   initCalls, initDone>>

\* The slugs requested: the enumerated ones and the slug of every path that
\* getStaticPaths generates, the part after /_images/.
RequestSlugs ==
    Slugs \cup { substringFrom(e, Len(sImagesPrefix)) :
                    e \in Range(getStaticPathsResult) }

(***************************************************************************)
(* Specifications                                                          *)
(***************************************************************************)
\* One request to the route, in a process that may have served requests
\* before (the runtime is then initialized), and getStaticPaths.
Init ==
    /\ \E c \in Configs :
         /\ presets = c.presets
         /\ baseDir = c.baseDir
         /\ files = c.files
    /\ nodeEnv \in BOOLEAN
    /\ wasmCached \in (IF nodeEnv THEN {FALSE} ELSE BOOLEAN)
    /\ inialized \in BOOLEAN
    /\ proc = [r \in {1} |-> IdleProc]
    /\ staticPaths = <<>>
    /\ pathsListed = FALSE
    /\ initCalls = IF inialized THEN 1 ELSE 0
    /\ initDone = IF inialized THEN 1 ELSE 0

Next ==
    \/ \E r \in DOMAIN proc : \E slug \in RequestSlugs : GET(r, TRUE, slug)
    \/ \E r \in DOMAIN proc : GET(r, FALSE, <<>>)
    \/ \E r \in DOMAIN proc : InitPnpm(r)
    \/ \E r \in DOMAIN proc : InitNpm(r)
    \/ \E r \in DOMAIN proc : InitCacheMatch(r)
    \/ \E r \in DOMAIN proc : InitFetch(r)
    \/ \E r \in DOMAIN proc : InitWasm(r)
    \/ \E r \in DOMAIN proc : SetInialized(r)
    \/ \E r \in DOMAIN proc : ReadFile(r)
    \/ \E r \in DOMAIN proc : Decode(r)
    \/ \E r \in DOMAIN proc : Respond(r)
    \/ GetStaticPaths

Spec ==
    Init /\ [][Next]_vars

\* The test's preset.
TestPreset ==
    [format |-> WebP, transform |-> "resize300"]

\* Concurrent and successive calls of transformImage in a fresh process.
InitCalls ==
    /\ presets = ReadmeConfig.presets
    /\ baseDir = ReadmeConfig.baseDir
    /\ files = ReadmeConfig.files
    /\ nodeEnv \in BOOLEAN
    /\ wasmCached \in (IF nodeEnv THEN {FALSE} ELSE BOOLEAN)
    /\ inialized = FALSE
    /\ proc = [r \in Calls |-> IdleProc]
    /\ staticPaths = <<>>
    /\ pathsListed = FALSE
    /\ initCalls = 0
    /\ initDone = 0

NextCalls ==
    \/ \E r \in DOMAIN proc :
         \E path \in {baseDir \o fBlueMarble, baseDir \o fMissing} :
            TransformImageCall(r, path, TestPreset)
    \/ \E r \in DOMAIN proc : InitPnpm(r)
    \/ \E r \in DOMAIN proc : InitNpm(r)
    \/ \E r \in DOMAIN proc : InitCacheMatch(r)
    \/ \E r \in DOMAIN proc : InitFetch(r)
    \/ \E r \in DOMAIN proc : InitWasm(r)
    \/ \E r \in DOMAIN proc : SetInialized(r)
    \/ \E r \in DOMAIN proc : ReadFile(r)
    \/ \E r \in DOMAIN proc : Decode(r)

SpecCalls ==
    InitCalls /\ [][NextCalls]_vars

(***************************************************************************)
(* Vocabulary of the properties: the parts of a slug as the specification  *)
(* words them, stated without the code's splitAt.                          *)
(***************************************************************************)
HasChar(str, ch) ==
    \E i \in 1..Len(str) : str[i] = ch

FirstPos(str, ch) ==
    CHOOSE i \in 1..Len(str) : str[i] = ch /\ ~HasChar(SubSeq(str, 1, i - 1), ch)

LastPos(str, ch) ==
    CHOOSE i \in 1..Len(str) :
        str[i] = ch /\ ~HasChar(SubSeq(str, i + 1, Len(str)), ch)

\* The text before the first "/".
NameOf(slug) ==
    SubSeq(slug, 1, FirstPos(slug, "/") - 1)

\* The remainder after the first "/".
RestOf(slug) ==
    SubSeq(slug, FirstPos(slug, "/") + 1, Len(slug))

\* The text between the first "/" and the last "." of the remainder.
FileOf(slug) ==
    SubSeq(RestOf(slug), 1, LastPos(RestOf(slug), ".") - 1)

\* The text after the last "." of the remainder.
SuffixOf(slug) ==
    SubSeq(RestOf(slug), LastPos(RestOf(slug), ".") + 1, Len(RestOf(slug)))

WellFormed(slug) ==
    /\ HasChar(slug, "/")
    /\ HasChar(RestOf(slug), ".")
    /\ NameOf(slug) # <<>>
    /\ FileOf(slug) # <<>>
    /\ SuffixOf(slug) # <<>>

Configured(name) ==
    \E i \in 1..Len(presets) : presets[i].name = name

PresetNamed(name) ==
    presets[CHOOSE i \in 1..Len(presets) : presets[i].name = name]

\* The preset's configured format, WEBP when it has none.
FormatOfPreset(preset) ==
    IF preset.format = <<>> THEN WebP ELSE preset.format

SameIgnoringCase(a, b) ==
    /\ Len(a) = Len(b)
    /\ \A i \in 1..Len(a) : upperChar(a[i]) = upperChar(b[i])

Contains(str, sub) ==
    \E i \in 0..(Len(str) - Len(sub)) : SubSeq(str, i + 1, i + Len(sub)) = sub

\* A request that GET has taken up.
Requested(r) ==
    proc[r].viaGET /\ proc[r].pc # "idle"

Answered404(r) ==
    proc[r].pc = "responded" /\ proc[r].resp.status = 404

\* A request whose slug names a configured preset.
NamesPreset(r) ==
    /\ Requested(r)
    /\ proc[r].hasSlug
    /\ WellFormed(proc[r].slug)
    /\ Configured(NameOf(proc[r].slug))

(***************************************************************************)
(* C1                                                                      *)
(***************************************************************************)
Malformed(r) ==
    \/ ~proc[r].hasSlug
    \/ proc[r].slug = <<>>
    \/ ~WellFormed(proc[r].slug)

\* C1: a request whose slug is absent or empty, has no "/", has no "." in
\* the remainder after the first "/", or has an empty preset name, file path
\* or suffix is answered with status 404 and transformImage is not called.
C1_MalformedSlugIs404 ==
    \A r \in DOMAIN proc :
        Requested(r) /\ Malformed(r)
            => Answered404(r) /\ proc[r].transformCalls = 0

\* A slug with a "/" and a "." in place but an empty file path was answered.
C1_Witness ==
    \E r \in DOMAIN proc :
        /\ Requested(r)
        /\ proc[r].hasSlug
        /\ HasChar(proc[r].slug, "/")
        /\ HasChar(RestOf(proc[r].slug), ".")
        /\ NameOf(proc[r].slug) # <<>>
        /\ SuffixOf(proc[r].slug) # <<>>
        /\ FileOf(proc[r].slug) = <<>>
        /\ Answered404(r)

(***************************************************************************)
(* C2                                                                      *)
(***************************************************************************)
QuotedNames ==
    sQuote \o join(ObjectKeys, sNamesSep) \o sQuote

\* C2: a request with a well-formed slug whose preset name is not a key of
\* the preset mapping is answered with status 404 and a body that contains
\* every configured preset name, double-quoted and comma-joined, and
\* transformImage is not called.
C2_UnknownPresetIs404 ==
    \A r \in DOMAIN proc :
        /\ Requested(r)
        /\ proc[r].hasSlug
        /\ WellFormed(proc[r].slug)
        /\ ~Configured(NameOf(proc[r].slug))
        => /\ Answered404(r)
           /\ Contains(proc[r].resp.text, QuotedNames)
           /\ proc[r].transformCalls = 0

(***************************************************************************)
(* C3                                                                      *)
(***************************************************************************)
RequiredFormat(r) ==
    FormatOfPreset(PresetNamed(NameOf(proc[r].slug)))

\* C3: for a slug naming a configured preset, a suffix that differs from
\* the preset's format (WEBP when it has none) other than in letter case is
\* answered with status 404 and a body naming the required format, and
\* transformImage is not called; a suffix equal to it up to letter case is
\* accepted, and the image is encoded in the preset's format.
C3_SuffixMustMatchFormat ==
    \A r \in DOMAIN proc :
        NamesPreset(r) =>
            IF SameIgnoringCase(SuffixOf(proc[r].slug), RequiredFormat(r))
            THEN /\ ~Answered404(r)
                 /\ proc[r].transformCalls = 1
                 /\ proc[r].format = RequiredFormat(r)
            ELSE /\ Answered404(r)
                 /\ Contains(proc[r].resp.text,
                             sFormatB \o RequiredFormat(r) \o sFormatC)
                 /\ proc[r].transformCalls = 0

\* A slug naming a configured preset with the suffix of another format was
\* answered.
C3_Witness ==
    \E r \in DOMAIN proc :
        /\ NamesPreset(r)
        /\ ~SameIgnoringCase(SuffixOf(proc[r].slug), RequiredFormat(r))
        /\ Answered404(r)

(***************************************************************************)
(* C4                                                                      *)
(***************************************************************************)
\* A request whose slug names a configured preset, with a suffix equal to
\* the preset's format up to letter case, and whose source file exists.
Servable(r) ==
    /\ NamesPreset(r)
    /\ SameIgnoringCase(SuffixOf(proc[r].slug), RequiredFormat(r))
    /\ \E i \in 1..Len(files) : files[i] = FileOf(proc[r].slug)

\* The one transformImage call such a request makes.
CalledAsSpecified(r) ==
    /\ proc[r].transformCalls = 1
    /\ proc[r].path = baseDir \o FileOf(proc[r].slug)
    /\ proc[r].transform = PresetNamed(NameOf(proc[r].slug)).transform
    /\ proc[r].format = RequiredFormat(r)

\* The source image after the preset's transform, encoded in the format.
ImageBytes(r) ==
    [src |-> baseDir \o FileOf(proc[r].slug),
     transform |-> PresetNamed(NameOf(proc[r].slug)).transform,
     format |-> RequiredFormat(r)]

EntryAt(i, j) ==
    staticPaths[(i - 1) * Len(presets) + j]

\* C5: getStaticPaths returns one entry per discovered file and preset
\* name, /_images/<preset name>/<file path relative to baseDir>.webp, files
\* in discovery order and, per file, presets in Object.keys order; for the
\* preset small and the one file blue-marble.jpg the result is exactly
\* /_images/small/blue-marble.jpg.webp.
C5_StaticPathsPerFileAndPreset ==
    pathsListed =>
        /\ Len(staticPaths) = Len(files) * Len(presets)
        /\ \A i \in 1..Len(files) : \A j \in 1..Len(presets) :
             EntryAt(i, j) = sImagesPrefix \o presets[j].name \o <<"/">>
                                 \o files[i] \o sDotWebp
        /\ (presets = ReadmeConfig.presets /\ files = <<fBlueMarble>>)
             => staticPaths = <<sReadmeStaticPath>>

\* getStaticPaths returned for two files and two presets.
C5_Witness ==
    /\ pathsListed
    /\ Len(files) = 2
    /\ Len(presets) = 2
    /\ Len(staticPaths) = 4

(***************************************************************************)
(* C8                                                                      *)
(***************************************************************************)
\* Request r asks for the path generated for the i-th file and j-th preset.
RequestsEntry(r, i, j) ==
    /\ Requested(r)
    /\ proc[r].hasSlug
    /\ getStaticPathsResult[(i - 1) * Len(presets) + j]
         = sImagesPrefix \o proc[r].slug

RejectedForFormat(r, format) ==
    /\ Answered404(r)
    /\ proc[r].transformCalls = 0
    /\ Contains(proc[r].resp.text, sFormatB \o format \o sFormatC)

ReadsFile(r, i) ==
    /\ ~Answered404(r)
    /\ proc[r].transformCalls = 1
    /\ proc[r].path = baseDir \o files[i]

OneSegment(name) ==
    name # <<>> /\ ~HasChar(name, "/")

C6_InitializeAtMostOnce ==
    initCalls <= 1

(***************************************************************************)
(* C7                                                                      *)
(***************************************************************************)
Started(r) ==
    proc[r].pc # "idle"

\* A call that started when the flag was set has not invoked initialize.
NoInitOnceFlagSet ==
    \A r \in DOMAIN proc :
        Started(r) /\ proc[r].flagAtStart => proc[r].inits = 0

\* Two calls, the second started after the first resolved and no other call
\* made: initialize was invoked exactly once, by the first.
SuccessiveCallsInitOnce ==
    \A a \in DOMAIN proc : \A b \in DOMAIN proc :
        /\ Started(b)
        /\ a \in proc[b].sawResolved
        /\ \A c \in DOMAIN proc \ {a, b} : ~Started(c)
        => initCalls = 1 /\ proc[a].inits = 1 /\ proc[b].inits = 0

\* The flag is never cleared, and it is set only by a call whose own
\* initialize has completed, after a successful initializeImageMagick.
FlagOneWay ==
    /\ inialized => inialized'
    /\ ~inialized /\ inialized'
         => /\ initDone >= 1
            /\ \E r \in DOMAIN proc :
                 proc[r].pc = "init_done" /\ proc'[r].pc # "init_done"

\* C7: the flag only moves from uninitialized to initialized and is set only
\* after an initialize call has completed; a call that starts after the flag
\* is set does not invoke initialize, so two calls made one after the other
\* initialize the runtime exactly once.
C7_FlagOneWayInitOnce ==
    /\ [][FlagOneWay]_vars
    /\ [](NoInitOnceFlagSet /\ SuccessiveCallsInitOnce)

\* A second call was made after the first resolved and has read its file.
C7_Witness ==
    \E a \in DOMAIN proc : \E b \in DOMAIN proc :
        /\ a \in proc[b].sawResolved
        /\ proc[b].flagAtStart
        /\ proc[b].pc = "resolved"
        /\ initCalls = 1

(***************************************************************************)
(* C9                                                                      *)
(***************************************************************************)
\* The npm path is tried only after the pnpm path failed; a call whose npm
\* attempt failed too is rejected without having read or decoded anything.
NpmOnlyAfterPnpmFailed ==
    \A r \in DOMAIN proc :
        /\ proc[r].npm # "untried" => proc[r].pnpm = "failed"
        /\ proc[r].pc = "init_npm" => proc[r].pnpm = "failed"
        /\ ~nodeEnv => proc[r].pnpm = "untried" /\ proc[r].npm = "untried"
        /\ nodeEnv /\ proc[r].inits = 1
             => proc[r].pc = "init_pnpm" \/ proc[r].pnpm # "untried"
        /\ proc[r].npm = "failed"
             => /\ proc[r].pc = "rejected"
                /\ ~proc[r].didRead
                /\ ~proc[r].decoded
                /\ proc[r].result = NoBytes

\* The step in which a call's npm attempt fails leaves the flag alone, and
\* a call that starts while the flag is unset invokes initialize.
FailureLeavesFlag ==
    \A r \in DOMAIN proc :
        /\ proc[r].npm # "failed" /\ proc'[r].npm = "failed"
             => inialized' = inialized
        /\ ~Started(r) /\ proc'[r].pc # "idle" /\ ~inialized
             => proc'[r].inits = 1 /\ initCalls' = initCalls + 1

\* C9: under Node, initialize tries the pnpm path first and the npm path
\* only if the first attempt fails; if the second fails too, transformImage
\* is rejected, the call reads and decodes nothing, and the flag stays
\* unset (it is set only once some initialization succeeded), so that a
\* later call invokes initialize again.
C9_NodeFallbackAndFailure ==
    /\ [][FailureLeavesFlag]_vars
    /\ [](NpmOnlyAfterPnpmFailed /\ (initDone = 0 => ~inialized))

\* A call started after another call's second attempt had failed, and it
\* invoked initialize again.
C9_Witness ==
    \E a \in DOMAIN proc : \E b \in DOMAIN proc :
        /\ proc[a].npm = "failed"
        /\ a \in proc[b].sawRejected
        /\ proc[b].inits = 1
        /\ proc[b].pnpm = "failed"
        /\ proc[b].npm = "ok"

(***************************************************************************)
(* C10                                                                     *)
(***************************************************************************)
\* C10: no call reads its file or decodes before some initialization has
\* completed successfully.
C10_NoReadBeforeInit ==
    \A r \in DOMAIN proc :
        proc[r].didRead \/ proc[r].decoded => initDone >= 1 /\ inialized

\* A call that arrived while another call's initialization was in flight
\* has gone on to read its file.
C10_Witness ==
    \E a \in DOMAIN proc : \E b \in DOMAIN proc :
        /\ a \in proc[b].sawInit
        /\ proc[b].didRead
====
